---- MODULE Spec2Model ----
\* Save / versioning / concurrency pipeline of the board editor:
\* the boards service (createBoard, saveVersion, restoreVersion), the save,
\* restore and cleanup API handlers, and the autosave logic of BoardEditor.
EXTENDS Integers, Sequences, FiniteSets, TLC

\* ---------------------------------------------------------------------------
\* Bounds of the model
\* ---------------------------------------------------------------------------
\* requests that the API callers of Spec submit
MaxApiRequests == 2

\* requests of SpecEditor, those of the editor session and of the other editor
MaxEditorRequests == 2

\* elements of a scene of SpecPayload
MaxPayloadElements == 2

\* requests that the API callers of SpecPayload submit
MaxPayloadRequests == 2

MaxIoFailures == 1

\* SpecCap: the number of requests
MaxCapRequests == 1

\* SpecRateLimit: the number of requests
MaxLimitedRequests == 4

\* SpecViewer: the number of requests
MaxViewerRequests == 2

\* SpecHistory: the number of saves
MaxHistorySaves == 100

\* SpecBoards: the number of requests
MaxBoardsRequests == 2

\* ---------------------------------------------------------------------------
\* JavaScript values
\* ---------------------------------------------------------------------------
Undefined == "<undefined>"

NULL == "<null>"

\* JS truthiness of an optional string: undefined, null and "" are falsy
Truthy(s) == s # Undefined /\ s # NULL /\ s # ""

\* The content of a string is read one character at a time
Whitespace == {" ", "\n", "\t"}

CharAt(s, i) == SubSeq(s, i, i)

\* Array.prototype.join(sep)
RECURSIVE JoinParts(_, _)
JoinParts(parts, sep) ==
    IF parts = <<>> THEN ""
    ELSE IF Len(parts) = 1 THEN parts[1]
    ELSE parts[1] \o sep \o JoinParts(Tail(parts), sep)

\* the words of s that lie between the positions starts[lo..hi] and
\* stops[lo..hi], with one space between two words
RECURSIVE Spaced(_, _, _, _, _)
Spaced(s, starts, stops, lo, hi) ==
    IF lo > hi THEN ""
    ELSE IF lo = hi THEN SubSeq(s, starts[lo], stops[lo])
    ELSE LET mid == (lo + hi) \div 2
         IN Spaced(s, starts, stops, lo, mid) \o " "
            \o Spaced(s, starts, stops, mid + 1, hi)

\* String.prototype.replace(/\s+/g, " "): every maximal run of whitespace
\* becomes one space, at the ends of the string as between two words
CollapseWhitespace(s) ==
    LET n == Len(s)
        positions == [i \in 1..n |-> i]
        starts == SelectSeq(positions,
                      LAMBDA i : /\ CharAt(s, i) \notin Whitespace
                                 /\ (i = 1 \/ CharAt(s, i - 1) \in Whitespace))
        stops == SelectSeq(positions,
                     LAMBDA i : /\ CharAt(s, i) \notin Whitespace
                                /\ (i = n \/ CharAt(s, i + 1) \in Whitespace))
    IN IF n = 0 THEN ""
       ELSE IF Len(starts) = 0 THEN " "
       ELSE (IF CharAt(s, 1) \in Whitespace THEN " " ELSE "")
            \o Spaced(s, starts, stops, 1, Len(starts))
            \o (IF CharAt(s, n) \in Whitespace THEN " " ELSE "")

RECURSIVE TrimStart(_)
TrimStart(s) ==
    IF s # "" /\ CharAt(s, 1) \in Whitespace
    THEN TrimStart(SubSeq(s, 2, Len(s)))
    ELSE s

RECURSIVE TrimEnd(_)
TrimEnd(s) ==
    IF s # "" /\ CharAt(s, Len(s)) \in Whitespace
    THEN TrimEnd(SubSeq(s, 1, Len(s) - 1))
    ELSE s

\* String.prototype.trim()
Trim(s) == TrimEnd(TrimStart(s))

\* a cut that also drops the whitespace the result would end with
SliceTo_Trimmed(s, n) == TrimEnd(IF Len(s) > n THEN SubSeq(s, 1, n) ELSE s)

\* String.prototype.slice(0, n)
SliceTo(s, n) == IF Len(s) > n THEN SubSeq(s, 1, n) ELSE s

\* ---------------------------------------------------------------------------
\* Scene payloads (sceneJson): elements and the files map
\* ---------------------------------------------------------------------------
NoCustomData ==
    [isMarkdownCard |-> FALSE, isRichTextCard |-> FALSE,
     isMarkdownSearchText |-> FALSE, isRichTextSearchText |-> FALSE,
     markdown |-> "", richTextContent |-> [kind |-> "undefined"],
     searchTextElementId |-> Undefined]

SceneElement(id, type, text, fileId, isDeleted, customData) ==
    [id |-> id, type |-> type, text |-> text, fileId |-> fileId,
     isDeleted |-> isDeleted, customData |-> customData]

TiptapNode(text, content) == [text |-> text, content |-> content]

\* customData.richTextContent: absent, a string that JSON.parse rejects, or
\* the JSON text of a Tiptap node
NoRichText == [kind |-> "undefined"]

MalformedRichText == [kind |-> "malformed"]

RichText(node) == [kind |-> "json", node |-> node]

\* .replace(/^#{1,6}\s+/gm, "") on a one-line string
LeadingHashes(s) ==
    IF \E n \in 1..Len(s) : CharAt(s, n) # "#"
    THEN (CHOOSE n \in 1..Len(s) :
             CharAt(s, n) # "#" /\ \A m \in 1..(n - 1) : CharAt(s, m) = "#") - 1
    ELSE Len(s)

StripHeaderMarker(s) ==
    LET h == LeadingHashes(s)
    IN IF h >= 1 /\ h <= 6 /\ Len(s) > h /\ CharAt(s, h + 1) \in Whitespace
       THEN TrimStart(SubSeq(s, h + 1, Len(s)))
       ELSE s

\* Markdown of the model is one line over letters, blanks and "#"; of the
\* replacements of stripMarkdownToPlainText only the header rule and the final
\* trim can match such a line.
stripMarkdownToPlainText(markdown) == Trim(StripHeaderMarker(markdown))

RECURSIVE extractTextFromTiptapJson(_)
extractTextFromTiptapJson(node) ==
    IF node.text # "" THEN node.text
    ELSE IF node.content # Undefined
         THEN JoinParts([i \in 1..Len(node.content) |->
                            extractTextFromTiptapJson(node.content[i])], " ")
         ELSE ""

MAX_SEARCH_CONTENT_LENGTH == 50000

\* the textParts pushed for one element of the scene
ElementTextParts(element) ==
    IF element.isDeleted THEN <<>>
    ELSE IF element.customData.isMarkdownSearchText
            \/ element.customData.isRichTextSearchText THEN <<>>
    ELSE (IF element.type = "text" /\ element.text # ""
          THEN <<element.text>> ELSE <<>>)
         \o
         (IF element.customData.isMarkdownCard
             /\ element.customData.markdown # ""
             /\ stripMarkdownToPlainText(element.customData.markdown) # ""
          THEN <<stripMarkdownToPlainText(element.customData.markdown)>>
          ELSE <<>>)
         \o
         (IF element.customData.isRichTextCard
             /\ element.customData.richTextContent.kind = "json"
             /\ extractTextFromTiptapJson(element.customData.richTextContent.node) # ""
          THEN <<extractTextFromTiptapJson(element.customData.richTextContent.node)>>
          ELSE <<>>)

RECURSIVE TextParts(_)
TextParts(elements) ==
    IF elements = <<>> THEN <<>>
    ELSE ElementTextParts(elements[1]) \o TextParts(Tail(elements))

\* textParts.join(" ").replace(/\s+/g, " ").trim()
fullText(sceneJson) ==
    Trim(CollapseWhitespace(JoinParts(TextParts(sceneJson.elements), " ")))

extractSearchableContent(sceneJson) ==
    SliceTo(fullText(sceneJson), MAX_SEARCH_CONTENT_LENGTH)

\* file ids used by image elements that are not deleted
usedFileIds_LiveOnly(elements) ==
    {elements[i].fileId : i \in {j \in 1..Len(elements) :
        /\ elements[j].type = "image"
        /\ Truthy(elements[j].fileId)
        /\ ~elements[j].isDeleted}}

\* file ids used by image elements
usedFileIds(elements) ==
    {elements[i].fileId : i \in {j \in 1..Len(elements) :
        elements[j].type = "image" /\ Truthy(elements[j].fileId)}}

\* a collector that drops one unused file in a pass
cleanOrphanedFiles_OnePerPass(sceneJson) ==
    LET unused == (DOMAIN sceneJson.files) \ usedFileIds(sceneJson.elements)
    IN IF unused = {} THEN sceneJson
       ELSE [sceneJson EXCEPT !.files =
               [f \in (DOMAIN sceneJson.files) \ {CHOOSE u \in unused : TRUE}
                   |-> sceneJson.files[f]]]

cleanOrphanedFiles(sceneJson) ==
    IF DOMAIN sceneJson.files = {} THEN sceneJson
    ELSE [sceneJson EXCEPT !.files =
            [f \in (DOMAIN sceneJson.files) \cap usedFileIds(sceneJson.elements)
                |-> sceneJson.files[f]]]

\* The scenes that callers of the model submit
EmptyFiles == [f \in {} |-> "d"]

SceneText ==
    [elements |-> <<SceneElement("t1", "text", "hi", Undefined, FALSE,
                                 NoCustomData)>>,
     files |-> EmptyFiles]

\* an image that uses file f1, and a file f2 that no element uses
SceneOrphan ==
    [elements |-> <<SceneElement("i1", "image", "", "f1", FALSE,
                                 NoCustomData)>>,
     files |-> [f \in {"f1", "f2"} |-> "d"]]

\* a markdown card with its search-text mirror, and a deleted image
SceneCard ==
    [elements |->
        <<SceneElement("m1", "embeddable", "", Undefined, FALSE,
             [NoCustomData EXCEPT !.isMarkdownCard = TRUE,
                                  !.markdown = "# a",
                                  !.searchTextElementId = "mdsearch-m1"]),
          SceneElement("mdsearch-m1", "text", "a", Undefined, FALSE,
             [NoCustomData EXCEPT !.isMarkdownSearchText = TRUE]),
          SceneElement("i2", "image", "", "f1", TRUE, NoCustomData)>>,
     files |-> [f \in {"f1"} |-> "d"]]

\* SceneCard after the card has got the markdown "# b"
SceneCardB ==
    [SceneCard EXCEPT !.elements[1].customData.markdown = "# b",
                      !.elements[2].text = "b"]

Scenes == {SceneText, SceneOrphan, SceneCard}

EmptyScene == [elements |-> <<>>, files |-> EmptyFiles]

\* ---------------------------------------------------------------------------
\* Users and permissions (access.service)
\* ---------------------------------------------------------------------------
AllBoardIds == {"b1", "b2"}

AllUsers == {"alice", "bob", "vic"}

\* Membership.role of each user in the organization of the boards
OrgRole == [u \in AllUsers |-> IF u = "vic" THEN "VIEWER" ELSE "MEMBER"]

\* explicit BoardPermission rows: bob is an editor of every board
BoardPermissionRole(userId, boardId) ==
    IF userId = "bob" THEN "EDITOR" ELSE NULL

BOARD_ROLE_HIERARCHY(role) ==
    CASE role = "OWNER" -> 3
      [] role = "EDITOR" -> 2
      [] role = "VIEWER" -> 1
      [] OTHER -> 0

VARIABLES
    env,           \* what a run is made of: the ids of its boards, the users
                   \* who call the API directly, the scenes they submit and
                   \* the number of requests
    boards,        \* Board rows
    versions,      \* BoardVersion rows
    seq,           \* source of fresh ids and etags
    requests,      \* API requests, in the order of their submission
    submitted,     \* number of requests submitted so far
    otherSaves,    \* number of saves of the other editor so far
    ioFailures,    \* number of I/O failures so far
    rateLimitStore, \* the entries of the rate limiter, by key
    now            \* Date.now(), in milliseconds

serverVars ==
    <<env, rateLimitStore, now, boards, versions, seq, requests, submitted,
      otherSaves, ioFailures>>

\* The editor session (BoardEditor) of the owner of board b1
VARIABLES
    board,                  \* the loaded board, NULL before loadBoard
    excalidrawScene,        \* the scene held by Excalidraw
    saveStatus,
    lastSavedEtagRef,
    hasUnsavedChangesRef,
    lastSavedHashRef,
    cardSaveDebounceRef,    \* the debounce timer is pending
    wasEditingTextRef,
    idleTimers              \* pending setTimeout(() => setSaveStatus("idle"))

clientVars ==
    <<board, excalidrawScene, saveStatus, lastSavedEtagRef, hasUnsavedChangesRef,
      lastSavedHashRef, cardSaveDebounceRef, wasEditingTextRef, idleTimers>>

vars == <<serverVars, clientVars>>

NoBoard ==
    [exists |-> FALSE, ownerId |-> NULL, versionNumber |-> 0,
     currentVersionId |-> NULL, etag |-> NULL, searchContent |-> ""]

getBoardPermission(userId, boardId) ==
    IF ~boards[boardId].exists THEN NULL
    ELSE IF boards[boardId].ownerId = userId THEN "OWNER"
    ELSE IF OrgRole[userId] \in {"OWNER", "ADMIN"} THEN "OWNER"
    ELSE IF BoardPermissionRole(userId, boardId) # NULL
         THEN BoardPermissionRole(userId, boardId)
    ELSE "VIEWER"

canEditBoard(userId, boardId) ==
    BOARD_ROLE_HIERARCHY(getBoardPermission(userId, boardId))
        >= BOARD_ROLE_HIERARCHY("EDITOR")

\* the membership test of the cleanup handler: any member of the organization
isOrgMember(userId, boardId) == boards[boardId].exists /\ userId \in AllUsers

\* ---------------------------------------------------------------------------
\* Database
\* ---------------------------------------------------------------------------
FreshId(n) == "v" \o ToString(n)

FreshEtag(boardId, n) == boardId \o "-" \o ToString(n)

VersionsOf(boardId) == {v \in versions : v.boardId = boardId}

VersionNumbers(boardId) == {v.version : v \in VersionsOf(boardId)}

\* a BoardVersion table without the unique index: every insert is admitted
BoardVersion_withoutUniqueKey(boardId, version) == TRUE

\* the unique index on (boardId, version) admits the insert
BoardVersion_boardId_version_key(boardId, version) ==
    version \notin VersionNumbers(boardId)

\* prisma.boardVersion.findUnique({ boardId_version })
getBoardVersion(boardId, version) ==
    CHOOSE v \in VersionsOf(boardId) : v.version = version

\* prisma.boardVersion.findFirst({ orderBy: { version: "desc" } })
LatestVersion(boardId) ==
    CHOOSE v \in VersionsOf(boardId) :
        \A w \in VersionsOf(boardId) : w.version <= v.version

VersionRow(id, boardId, version, createdById, sceneJson, label) ==
    [id |-> id, boardId |-> boardId, version |-> version,
     createdById |-> createdById, sceneJson |-> sceneJson, label |-> label]

\* ---------------------------------------------------------------------------
\* createBoard
\* ---------------------------------------------------------------------------
createBoard(boardId, ownerId, sceneJson) ==
    /\ boardId \in env.boardIds
    /\ ~boards[boardId].exists
    /\ versions' = versions \cup
          {VersionRow(FreshId(seq + 1), boardId, 1, ownerId, sceneJson, NULL)}
    /\ boards' = [boards EXCEPT ![boardId] =
          [exists |-> TRUE, ownerId |-> ownerId, versionNumber |-> 1,
           currentVersionId |-> boardId,
           etag |-> FreshEtag(boardId, seq + 2),
           searchContent |-> extractSearchableContent(sceneJson)]]
    /\ seq' = seq + 2
    /\ UNCHANGED <<env, rateLimitStore, now,
                   requests, submitted, otherSaves, ioFailures>>

\* ---------------------------------------------------------------------------
\* API requests
\* ---------------------------------------------------------------------------
Request(caller, userId, kind, boardId, expectedEtag, sceneJson, targetVersion, pc) ==
    [caller |-> caller, userId |-> userId, kind |-> kind, boardId |-> boardId,
     expectedEtag |-> expectedEtag, sceneJson |-> sceneJson,
     targetVersion |-> targetVersion, pc |-> pc,
     submitEtag |-> boards[boardId].etag,
     submitVersionNumber |-> boards[boardId].versionNumber,
     readVersionNumber |-> 0, readScene |-> EmptyScene,
     status |-> 0, etag |-> NULL, version |-> 0, cause |-> NULL,
     cleaned |-> FALSE, bytesFreed |-> 0, filesRemoved |-> 0, at |-> now]

RemoveAt(s, i) == SubSeq(s, 1, i - 1) \o SubSeq(s, i + 1, Len(s))

\* A request that has ended stays in requests, without its payload, where
\* the run keeps the outcomes of its requests (env.keepDone).
Ended(reqs, i) ==
    IF env.keepDone
    THEN [reqs EXCEPT ![i] = [@ EXCEPT !.pc = "done", !.sceneJson = EmptyScene,
                                       !.readScene = EmptyScene]]
    ELSE RemoveAt(reqs, i)

Answered(r, status, etag, version, cause) ==
    [r EXCEPT !.pc = "responded", !.status = status, !.etag = etag,
              !.version = version, !.cause = cause]

\* the handler answers; a caller that is not the editor session takes the
\* answer at once
Respond(i, status, etag, version, cause) ==
    LET answered == [requests EXCEPT ![i] =
                        Answered(requests[i], status, etag, version, cause)]
    IN requests' = IF requests[i].caller = "editor"
                   THEN answered ELSE Ended(answered, i)

InFlight(i) == requests[i].pc \in {"sent", "found", "tx", "cleaning"}

\* a user calls POST /api/boards/:id/save directly
ApiSaveVersion(userId, boardId, expectedEtag, sceneJson) ==
    /\ submitted < env.maxRequests
    /\ submitted' = submitted + 1
    /\ boards[boardId].exists
    /\ requests' = Append(requests,
          Request("api", userId, "save", boardId, expectedEtag, sceneJson, 0, "sent"))
    /\ UNCHANGED <<env, rateLimitStore, now,
                   boards, versions, seq, otherSaves, ioFailures>>

\* a user calls POST /api/boards/:id/versions/:version directly
ApiRestoreVersion(userId, boardId, targetVersion) ==
    /\ submitted < env.maxRequests
    /\ submitted' = submitted + 1
    /\ boards[boardId].exists
    /\ requests' = Append(requests,
          Request("api", userId, "restore", boardId, Undefined, EmptyScene,
                  targetVersion, "sent"))
    /\ UNCHANGED <<env, rateLimitStore, now,
                   boards, versions, seq, otherSaves, ioFailures>>

\* a user calls POST /api/boards/:id/cleanup
ApiCleanup(userId, boardId) ==
    /\ submitted < env.maxRequests
    /\ submitted' = submitted + 1
    /\ boards[boardId].exists
    /\ requests' = Append(requests,
          Request("api", userId, "cleanup", boardId, Undefined, EmptyScene, 0, "sent"))
    /\ UNCHANGED <<env, rateLimitStore, now,
                   boards, versions, seq, otherSaves, ioFailures>>

\* ---------------------------------------------------------------------------
\* saveVersion: the transaction
\* ---------------------------------------------------------------------------
\* a transaction that reads the board and does not compare the etag
saveVersion_ReadUnchecked(i, expectedEtag) ==
    LET r == requests[i]
        row == boards[r.boardId]
    IN IF ~row.exists
       THEN Respond(i, 500, NULL, 0, "not-found")
       ELSE requests' = [requests EXCEPT ![i] =
               [@ EXCEPT !.pc = "tx", !.readVersionNumber = row.versionNumber]]

\* tx.board.findUnique and the optimistic concurrency check
saveVersion_Read(i, expectedEtag) ==
    LET r == requests[i]
        row == boards[r.boardId]
    IN IF ~row.exists
       THEN Respond(i, 500, NULL, 0, "not-found")
       ELSE IF Truthy(expectedEtag) /\ row.etag # expectedEtag
       THEN Respond(i, 409, row.etag, 0, NULL)
       ELSE requests' = [requests EXCEPT ![i] =
               [@ EXCEPT !.pc = "tx", !.readVersionNumber = row.versionNumber]]

\* a transaction that persists the scene as it was submitted
WriteVersion_Uncleaned(boardId, userId, sceneJson, label, newVersion) ==
    /\ versions' = versions \cup
          {VersionRow(FreshId(seq + 1), boardId, newVersion, userId, sceneJson, label)}
    /\ boards' = [boards EXCEPT ![boardId] =
          [@ EXCEPT !.versionNumber = newVersion,
                    !.currentVersionId = FreshId(seq + 1),
                    !.etag = FreshEtag(boardId, seq + 2),
                    !.searchContent = extractSearchableContent(sceneJson)]]
    /\ seq' = seq + 2

\* tx.boardVersion.create and tx.board.update
WriteVersion(boardId, userId, sceneJson, label, newVersion) ==
    LET cleanedSceneJson == cleanOrphanedFiles(sceneJson)
    IN /\ versions' = versions \cup
             {VersionRow(FreshId(seq + 1), boardId, newVersion, userId,
                         cleanedSceneJson, label)}
       /\ boards' = [boards EXCEPT ![boardId] =
             [@ EXCEPT !.versionNumber = newVersion,
                       !.currentVersionId = FreshId(seq + 1),
                       !.etag = FreshEtag(boardId, seq + 2),
                       !.searchContent = extractSearchableContent(cleanedSceneJson)]]
       /\ seq' = seq + 2

\* a transaction whose restore rewinds the history: the rows after the
\* restored one are deleted and the new row takes the number after it
saveVersion_WriteRewinding(i) ==
    LET r == requests[i]
        rewind == r.kind = "restore"
        kept == IF rewind
                THEN {v \in versions :
                         v.boardId # r.boardId \/ v.version <= r.targetVersion}
                ELSE versions
        newVersion == IF rewind THEN r.targetVersion + 1
                      ELSE r.readVersionNumber + 1
        label == IF rewind THEN "Restored" ELSE NULL
    IN /\ r.pc = "tx"
       /\ IF rewind \/ BoardVersion_boardId_version_key(r.boardId, newVersion)
          THEN /\ versions' = kept \cup
                     {VersionRow(FreshId(seq + 1), r.boardId, newVersion,
                                 r.userId, cleanOrphanedFiles(r.sceneJson), label)}
               /\ boards' = [boards EXCEPT ![r.boardId] =
                     [@ EXCEPT !.versionNumber = newVersion,
                               !.currentVersionId = FreshId(seq + 1),
                               !.etag = FreshEtag(r.boardId, seq + 2),
                               !.searchContent = extractSearchableContent(
                                   cleanOrphanedFiles(r.sceneJson))]]
               /\ seq' = seq + 2
               /\ Respond(i, 200, FreshEtag(r.boardId, seq + 2), newVersion, NULL)
          ELSE /\ Respond(i, 500, NULL, 0, "unique")
               /\ UNCHANGED <<boards, versions, seq>>
       /\ UNCHANGED <<env, rateLimitStore, now, submitted, otherSaves, ioFailures>>

\* the writes of the transaction and its commit, or its rollback when the
\* unique index rejects the new row; then the audit event
saveVersion_Write(i) ==
    LET r == requests[i]
        newVersion == r.readVersionNumber + 1
        label == IF r.kind = "restore" THEN "Restored" ELSE NULL
    IN /\ r.pc = "tx"
       /\ IF BoardVersion_boardId_version_key(r.boardId, newVersion)
          THEN /\ WriteVersion(r.boardId, r.userId, r.sceneJson, label, newVersion)
               /\ \/ /\ Respond(i, 200, FreshEtag(r.boardId, seq + 2), newVersion, NULL)
                     /\ UNCHANGED ioFailures
                  \/ \* prisma.board.findUnique for the audit event, after
                     \* the commit, fails and the handler answers 500
                     /\ ioFailures < MaxIoFailures
                     /\ ioFailures' = ioFailures + 1
                     /\ Respond(i, 500, NULL, 0, "io")
          ELSE /\ Respond(i, 500, NULL, 0, "unique")
               /\ UNCHANGED <<boards, versions, seq, ioFailures>>
       /\ UNCHANGED <<env, rateLimitStore, now, submitted, otherSaves>>

\* a handler that does not hand the expectedEtag of the request to saveVersion
SaveHandler_WithoutEtag(i) ==
    LET r == requests[i]
    IN /\ r.kind = "save"
       /\ r.pc = "sent"
       /\ IF ~canEditBoard(r.userId, r.boardId)
          THEN Respond(i, 403, NULL, 0, NULL)
          ELSE saveVersion_Read(i, Undefined)
       /\ UNCHANGED <<env, rateLimitStore, now,
                      boards, versions, seq, submitted, otherSaves, ioFailures>>

\* POST /api/boards/:id/save up to the read of the transaction
SaveHandler(i) ==
    LET r == requests[i]
    IN /\ r.kind = "save"
       /\ r.pc = "sent"
       /\ IF ~canEditBoard(r.userId, r.boardId)
          THEN Respond(i, 403, NULL, 0, NULL)
          ELSE saveVersion_Read(i, r.expectedEtag)
       /\ UNCHANGED <<env, rateLimitStore, now,
                      boards, versions, seq, submitted, otherSaves, ioFailures>>

\* ---------------------------------------------------------------------------
\* restoreVersion
\* ---------------------------------------------------------------------------
\* POST /api/boards/:id/versions/:version up to the read of the old version
RestoreHandler(i) ==
    LET r == requests[i]
    IN /\ r.kind = "restore"
       /\ r.pc = "sent"
       /\ IF ~canEditBoard(r.userId, r.boardId)
          THEN Respond(i, 403, NULL, 0, NULL)
          ELSE IF r.targetVersion \notin VersionNumbers(r.boardId)
          THEN Respond(i, 500, NULL, 0, "not-found")
          ELSE requests' = [requests EXCEPT ![i] =
                  [@ EXCEPT !.pc = "found",
                            !.sceneJson =
                                getBoardVersion(r.boardId, r.targetVersion).sceneJson]]
       /\ UNCHANGED <<env, rateLimitStore, now,
                      boards, versions, seq, submitted, otherSaves, ioFailures>>

\* restoreVersion calls saveVersion without an expectedEtag
restoreVersion_Save(i) ==
    LET r == requests[i]
    IN /\ r.kind = "restore"
       /\ r.pc = "found"
       /\ saveVersion_Read(i, Undefined)
       /\ UNCHANGED <<env, rateLimitStore, now,
                      boards, versions, seq, submitted, otherSaves, ioFailures>>

\* ---------------------------------------------------------------------------
\* POST /api/boards/:id/cleanup
\* ---------------------------------------------------------------------------
orphanedFileIds(scene) == (DOMAIN scene.files) \ usedFileIds(scene.elements)

\* new TextEncoder().encode(JSON.stringify(fileData)).length, summed over ids;
\* the data of a file is a string of ASCII letters
RECURSIVE bytesOf(_, _)
bytesOf(files, ids) ==
    IF ids = {} THEN 0
    ELSE LET f == CHOOSE x \in ids : TRUE
         IN (Len(files[f]) + 2) + bytesOf(files, ids \ {f})

\* a cleanup handler that goes on to write whether or not a file is orphaned
CleanupHandler_ReadAlways(i) ==
    LET r == requests[i]
    IN /\ r.kind = "cleanup"
       /\ r.pc = "sent"
       /\ IF ~isOrgMember(r.userId, r.boardId)
          THEN Respond(i, 404, NULL, 0, NULL)
          ELSE requests' = [requests EXCEPT ![i] =
                  [@ EXCEPT !.pc = "cleaning",
                            !.readVersionNumber = LatestVersion(r.boardId).version,
                            !.readScene = LatestVersion(r.boardId).sceneJson]]
       /\ UNCHANGED <<env, rateLimitStore, now,
                      boards, versions, seq, submitted, otherSaves, ioFailures>>

CleanupHandler_Read(i) ==
    LET r == requests[i]
    IN /\ r.kind = "cleanup"
       /\ r.pc = "sent"
       /\ IF ~isOrgMember(r.userId, r.boardId)
          THEN Respond(i, 404, NULL, 0, NULL)
          ELSE IF VersionsOf(r.boardId) = {}
                  \/ orphanedFileIds(LatestVersion(r.boardId).sceneJson) = {}
          THEN Respond(i, 200, NULL, 0, NULL)
          ELSE requests' = [requests EXCEPT ![i] =
                  [@ EXCEPT !.pc = "cleaning",
                            !.readVersionNumber = LatestVersion(r.boardId).version,
                            !.readScene = LatestVersion(r.boardId).sceneJson]]
       /\ UNCHANGED <<env, rateLimitStore, now,
                      boards, versions, seq, submitted, otherSaves, ioFailures>>

\* a cleanup that rewrites the scene of the latest version row in place
CleanupHandler_WriteInPlace(i) ==
    LET r == requests[i]
        cleanedScene ==
            [r.readScene EXCEPT !.files =
                [f \in (DOMAIN r.readScene.files) \cap usedFileIds(r.readScene.elements)
                    |-> r.readScene.files[f]]]
    IN /\ r.kind = "cleanup"
       /\ r.pc = "cleaning"
       /\ versions' = {IF v.boardId = r.boardId /\ v.version = r.readVersionNumber
                       THEN [v EXCEPT !.sceneJson = cleanedScene] ELSE v :
                       v \in versions}
       /\ requests' = Ended([requests EXCEPT ![i] =
             [@ EXCEPT !.status = 200, !.version = r.readVersionNumber,
                       !.cleaned = TRUE,
                       !.filesRemoved = Cardinality(orphanedFileIds(r.readScene))]], i)
       /\ UNCHANGED <<env, rateLimitStore, now,
                      boards, seq, submitted, otherSaves, ioFailures>>

\* prisma.boardVersion.create of the cleaned scene; the Board row keeps its
\* versionNumber, currentVersionId and etag
CleanupHandler_Write(i) ==
    LET r == requests[i]
        newVersion == r.readVersionNumber + 1
        cleanedScene ==
            [r.readScene EXCEPT !.files =
                [f \in (DOMAIN r.readScene.files) \cap usedFileIds(r.readScene.elements)
                    |-> r.readScene.files[f]]]
    IN /\ r.kind = "cleanup"
       /\ r.pc = "cleaning"
       /\ IF BoardVersion_boardId_version_key(r.boardId, newVersion)
          THEN /\ versions' = versions \cup
                     {VersionRow(FreshId(seq + 1), r.boardId, newVersion,
                                 r.userId, cleanedScene, NULL)}
               /\ seq' = seq + 1
               /\ requests' = Ended([requests EXCEPT ![i] =
                     [@ EXCEPT !.status = 200, !.version = newVersion,
                               !.cleaned = TRUE,
                               !.bytesFreed =
                                   bytesOf(r.readScene.files,
                                           orphanedFileIds(r.readScene)),
                               !.filesRemoved =
                                   Cardinality(orphanedFileIds(r.readScene))]], i)
          ELSE /\ Respond(i, 500, NULL, 0, "unique")
               /\ UNCHANGED <<versions, seq>>
       /\ UNCHANGED <<env, rateLimitStore, now,
                      boards, submitted, otherSaves, ioFailures>>

\* a database or network failure ends a request that is under way; nothing
\* of it is committed
IoFailure(i) ==
    /\ InFlight(i)
    /\ ioFailures < MaxIoFailures
    /\ ioFailures' = ioFailures + 1
    /\ Respond(i, 500, NULL, 0, "io")
    /\ UNCHANGED <<env, rateLimitStore, now,
                   boards, versions, seq, submitted, otherSaves>>

\* ---------------------------------------------------------------------------
\* Rate limiting middleware
\* ---------------------------------------------------------------------------
\* process.env.RATE_LIMIT_REQUESTS_PER_MINUTE || "60"
DefaultRequestsPerMinute == 60

\* rateLimiters.write: windowMs
windowMs == 60 * 1000

\* the address that the requests of a user come from
RemoteAddress(userId) == "ip-" \o userId

defaultKeyGenerator(userId) == "rate-limit:" \o RemoteAddress(userId)

\* rateLimitStore.get(key), and the entry that replaces a missing or an
\* expired one
CurrentEntry(key) ==
    IF key \notin DOMAIN rateLimitStore \/ rateLimitStore[key].resetAt < now
    THEN [count |-> 0, resetAt |-> now + windowMs]
    ELSE rateLimitStore[key]

\* rateLimiters.write(withAuth(handler)) of POST /api/boards/:id/save: the
\* request is counted and either answered 429 or passed to the handler
rateLimitMiddleware(userId, boardId, expectedEtag, sceneJson) ==
    LET key == defaultKeyGenerator(userId)
        entry == [CurrentEntry(key) EXCEPT !.count = @ + 1]
        r == Request("api", userId, "save", boardId, expectedEtag, sceneJson, 0, "sent")
    IN /\ submitted < env.maxRequests
       /\ submitted' = submitted + 1
       /\ boards[boardId].exists
       /\ rateLimitStore' =
             [k \in DOMAIN rateLimitStore \cup {key} |->
                 IF k = key THEN entry ELSE rateLimitStore[k]]
       /\ IF entry.count > env.RATE_LIMIT_REQUESTS_PER_MINUTE
          THEN requests' = IF env.keepDone
                           THEN Append(requests,
                                   [Answered(r, 429, NULL, 0, NULL) EXCEPT
                                       !.pc = "done", !.sceneJson = EmptyScene])
                           ELSE requests
          ELSE requests' = Append(requests, r)
       /\ UNCHANGED <<env, now, boards, versions, seq, otherSaves, ioFailures>>

\* setInterval: the entries whose window is over are deleted
rateLimitStore_Cleanup ==
    /\ \E k \in DOMAIN rateLimitStore : rateLimitStore[k].resetAt < now
    /\ rateLimitStore' =
          [k \in {x \in DOMAIN rateLimitStore : rateLimitStore[x].resetAt >= now}
              |-> rateLimitStore[k]]
    /\ UNCHANGED <<env, now, boards, versions, seq, requests, submitted,
                   otherSaves, ioFailures>>

\* ---------------------------------------------------------------------------
\* BoardEditor: the editor session
\* ---------------------------------------------------------------------------
EditorUser == "alice"

EditorBoard == "b1"

RECURSIVE HashedElements(_)
HashedElements(elements) ==
    IF elements = <<>> THEN <<>>
    ELSE (IF elements[1].isDeleted THEN <<>>
          ELSE <<[id |-> elements[1].id, type |-> elements[1].type,
                  text |-> elements[1].text, fileId |-> elements[1].fileId,
                  customData |-> elements[1].customData]>>)
         \o HashedElements(Tail(elements))

\* The digest is taken over the listed fields of the elements that are not
\* deleted and over the file ids; the model keeps the digested content itself.
hashSceneContent(elements, files) ==
    [elements |-> HashedElements(elements), fileIds |-> DOMAIN files]

NoHash == [elements |-> <<>>, fileIds |-> {"<none>"}]

\* the requests after the page is left: what was not sent is never sent, an
\* answer that has arrived is dropped, and what is under way has no receiver
RECURSIVE Abandoned(_)
Abandoned(reqs) ==
    IF reqs = <<>> THEN <<>>
    ELSE IF reqs[1].caller = "editor" /\ reqs[1].pc \in {"thumbnail", "responded"}
         THEN Abandoned(Tail(reqs))
    ELSE IF reqs[1].caller = "editor"
         THEN <<[reqs[1] EXCEPT !.caller = "closed"]>> \o Abandoned(Tail(reqs))
    ELSE <<reqs[1]>> \o Abandoned(Tail(reqs))

\* loadBoard; also what a reload of the page does: every ref and timer of the
\* old component is gone and the answers to its requests are dropped
loadBoard ==
    /\ boards[EditorBoard].exists
    /\ board = NULL \/ saveStatus \in {"conflict", "error"}
    /\ board' = EditorBoard
    /\ lastSavedEtagRef' = boards[EditorBoard].etag
    /\ excalidrawScene' = LatestVersion(EditorBoard).sceneJson
    /\ lastSavedHashRef' = hashSceneContent(excalidrawScene'.elements, excalidrawScene'.files)
    /\ saveStatus' = "idle"
    /\ hasUnsavedChangesRef' = FALSE
    /\ cardSaveDebounceRef' = FALSE
    /\ wasEditingTextRef' = FALSE
    /\ idleTimers' = 0
    /\ requests' = Abandoned(requests)
    /\ UNCHANGED <<env, rateLimitStore, now,
                   boards, versions, seq, submitted, otherSaves, ioFailures>>

\* saveToServer up to the await of the thumbnail
saveToServer(elements, files) ==
    /\ board # NULL
    /\ submitted < env.maxRequests
    /\ submitted' = submitted + 1
    /\ saveStatus' = "saving"
    /\ requests' = Append(requests,
          Request("editor", env.sessionUser, "save", board, Undefined,
                  [elements |-> elements, files |-> files], 0, "thumbnail"))

\* saveToServer: boardApi.saveVersion is called with the etag held now
saveToServer_Send(i) ==
    /\ requests[i].caller = "editor"
    /\ requests[i].pc = "thumbnail"
    /\ requests' = [requests EXCEPT ![i] =
          [@ EXCEPT !.pc = "sent",
                    !.expectedEtag = IF Truthy(lastSavedEtagRef)
                                     THEN lastSavedEtagRef ELSE Undefined,
                    !.submitEtag = boards[requests[i].boardId].etag,
                    !.submitVersionNumber =
                        boards[requests[i].boardId].versionNumber]]
    /\ UNCHANGED <<env, rateLimitStore, now,
                   boards, versions, seq, submitted, otherSaves, ioFailures>>
    /\ UNCHANGED clientVars

\* a saveToServer that takes the hash of the scene on screen as the last
\* saved hash
saveToServer_ResponseHashesScreen(i) ==
    LET r == requests[i]
    IN /\ r.caller = "editor"
       /\ r.kind = "save"
       /\ r.pc = "responded"
       /\ requests' = Ended(requests, i)
       /\ IF r.status = 200
          THEN /\ lastSavedEtagRef' = r.etag
               /\ lastSavedHashRef' =
                     hashSceneContent(excalidrawScene.elements, excalidrawScene.files)
               /\ hasUnsavedChangesRef' = FALSE
               /\ saveStatus' = "saved"
               /\ idleTimers' = idleTimers + 1
          ELSE /\ saveStatus' = IF r.status = 409 THEN "conflict" ELSE "error"
               /\ UNCHANGED <<lastSavedEtagRef, lastSavedHashRef,
                              hasUnsavedChangesRef, idleTimers>>
       /\ UNCHANGED <<env, rateLimitStore, now,
                      boards, versions, seq, submitted, otherSaves, ioFailures>>
       /\ UNCHANGED <<board, excalidrawScene, cardSaveDebounceRef, wasEditingTextRef>>

\* saveToServer after the await of boardApi.saveVersion
saveToServer_Response(i) ==
    LET r == requests[i]
    IN /\ r.caller = "editor"
       /\ r.kind = "save"
       /\ r.pc = "responded"
       /\ requests' = Ended(requests, i)
       /\ IF r.status = 200
          THEN /\ lastSavedEtagRef' = r.etag
               /\ lastSavedHashRef' =
                     hashSceneContent(r.sceneJson.elements, r.sceneJson.files)
               /\ hasUnsavedChangesRef' = FALSE
               /\ saveStatus' = "saved"
               /\ idleTimers' = idleTimers + 1
          ELSE /\ saveStatus' = IF r.status = 409 THEN "conflict" ELSE "error"
               /\ UNCHANGED <<lastSavedEtagRef, lastSavedHashRef,
                              hasUnsavedChangesRef, idleTimers>>
       /\ UNCHANGED <<env, rateLimitStore, now,
                      boards, versions, seq, submitted, otherSaves, ioFailures>>
       /\ UNCHANGED <<board, excalidrawScene, cardSaveDebounceRef, wasEditingTextRef>>

\* setTimeout(() => setSaveStatus("idle"), 2000)
IdleTimer ==
    /\ idleTimers > 0
    /\ idleTimers' = idleTimers - 1
    /\ saveStatus' = "idle"
    /\ UNCHANGED serverVars
    /\ UNCHANGED <<board, excalidrawScene, lastSavedEtagRef, hasUnsavedChangesRef,
                   lastSavedHashRef, cardSaveDebounceRef, wasEditingTextRef>>

\* the test of the setInterval callback
TickSends == board # NULL /\ hasUnsavedChangesRef

\* the setInterval callback of the autosave effect
AutosaveInterval ==
    /\ TickSends
    /\ saveToServer(excalidrawScene.elements, excalidrawScene.files)
    /\ UNCHANGED <<env, rateLimitStore, now,
                   boards, versions, seq, otherSaves, ioFailures>>
    /\ UNCHANGED <<board, excalidrawScene, lastSavedEtagRef, hasUnsavedChangesRef,
                   lastSavedHashRef, cardSaveDebounceRef, wasEditingTextRef,
                   idleTimers>>

\* onChange of Excalidraw: the user has made the scene newScene
handleChange(newScene, isCurrentlyEditing) ==
    /\ board # NULL
    /\ excalidrawScene' = newScene
    /\ hasUnsavedChangesRef' =
          (hasUnsavedChangesRef
           \/ hashSceneContent(newScene.elements, newScene.files) # lastSavedHashRef)
    /\ cardSaveDebounceRef' =
          (cardSaveDebounceRef
           \/ (wasEditingTextRef /\ ~isCurrentlyEditing /\ hasUnsavedChangesRef'))
    /\ wasEditingTextRef' = isCurrentlyEditing
    /\ UNCHANGED serverVars
    /\ UNCHANGED <<board, saveStatus, lastSavedEtagRef, lastSavedHashRef, idleTimers>>

\* the callback of the cardSaveDebounceRef timer
CardSaveDebounce ==
    /\ cardSaveDebounceRef
    /\ cardSaveDebounceRef' = FALSE
    /\ saveToServer(excalidrawScene.elements, excalidrawScene.files)
    /\ UNCHANGED <<env, rateLimitStore, now,
                   boards, versions, seq, otherSaves, ioFailures>>
    /\ UNCHANGED <<board, excalidrawScene, lastSavedEtagRef, hasUnsavedChangesRef,
                   lastSavedHashRef, wasEditingTextRef, idleTimers>>

handleManualSave ==
    /\ saveToServer(excalidrawScene.elements, excalidrawScene.files)
    /\ UNCHANGED <<env, rateLimitStore, now,
                   boards, versions, seq, otherSaves, ioFailures>>
    /\ UNCHANGED <<board, excalidrawScene, lastSavedEtagRef, hasUnsavedChangesRef,
                   lastSavedHashRef, cardSaveDebounceRef, wasEditingTextRef,
                   idleTimers>>

IsMarkdownCardIn(scene, j) ==
    /\ ~scene.elements[j].isDeleted
    /\ scene.elements[j].customData.isMarkdownCard

\* the elements after the card j has got the markdown newMarkdown
UpdatedCardElements(elements, j, newMarkdown) ==
    [k \in 1..Len(elements) |->
        IF k = j
        THEN [elements[k] EXCEPT !.customData.markdown = newMarkdown]
        ELSE IF Truthy(elements[j].customData.searchTextElementId)
                /\ elements[k].id = elements[j].customData.searchTextElementId
        THEN [elements[k] EXCEPT !.text = stripMarkdownToPlainText(newMarkdown)]
        ELSE elements[k]]

\* the user closes the markdown editor of card j with newMarkdown
handleSaveMarkdownCard(j, newMarkdown) ==
    /\ board # NULL
    /\ j \in 1..Len(excalidrawScene.elements)
    /\ IsMarkdownCardIn(excalidrawScene, j)
    /\ excalidrawScene' = [excalidrawScene EXCEPT
          !.elements = UpdatedCardElements(excalidrawScene.elements, j, newMarkdown)]
    /\ hasUnsavedChangesRef' = TRUE
    /\ saveToServer(excalidrawScene'.elements, excalidrawScene.files)
    /\ UNCHANGED <<env, rateLimitStore, now,
                   boards, versions, seq, otherSaves, ioFailures>>
    /\ UNCHANGED <<board, lastSavedEtagRef, lastSavedHashRef,
                   cardSaveDebounceRef, wasEditingTextRef, idleTimers>>

\* ---------------------------------------------------------------------------
\* Spec: one board and users who call the save, restore and cleanup API
\* ---------------------------------------------------------------------------
ApiEtags(boardId) == {Undefined, "", boards[boardId].etag}

InitSession ==
    /\ board = NULL
    /\ excalidrawScene = EmptyScene
    /\ saveStatus = "idle"
    /\ lastSavedEtagRef = ""
    /\ hasUnsavedChangesRef = FALSE
    /\ lastSavedHashRef = NoHash
    /\ cardSaveDebounceRef = FALSE
    /\ wasEditingTextRef = FALSE
    /\ idleTimers = 0

InitDatabase ==
    /\ boards = [b \in AllBoardIds |-> NoBoard]
    /\ versions = {}
    /\ seq = 0
    /\ requests = <<>>
    /\ submitted = 0
    /\ otherSaves = 0
    /\ ioFailures = 0
    /\ rateLimitStore = <<>>
    /\ now = 0

Init ==
    /\ env = [boardIds |-> {"b1"}, users |-> {"bob"}, scenes |-> Scenes,
              maxRequests |-> MaxApiRequests, keepDone |-> TRUE,
              sessionUser |-> EditorUser,
              RATE_LIMIT_REQUESTS_PER_MINUTE |-> DefaultRequestsPerMinute]
    /\ InitDatabase
    /\ InitSession

CreateBoard ==
    /\ \E b \in env.boardIds, s \in env.scenes : createBoard(b, EditorUser, s)
    /\ UNCHANGED clientVars

SubmitSave ==
    /\ \E u \in env.users, b \in env.boardIds, s \in env.scenes :
          \E e \in ApiEtags(b) : ApiSaveVersion(u, b, e, s)
    /\ UNCHANGED clientVars

SubmitRestore ==
    /\ \E u \in env.users, b \in env.boardIds :
          \E k \in 1..(boards[b].versionNumber + 1) : ApiRestoreVersion(u, b, k)
    /\ UNCHANGED clientVars

SubmitCleanup ==
    /\ \E u \in env.users, b \in env.boardIds : ApiCleanup(u, b)
    /\ UNCHANGED clientVars

ServeSave ==
    /\ \E i \in 1..Len(requests) : SaveHandler(i) \/ saveVersion_Write(i)
    /\ UNCHANGED clientVars

ServeRestore ==
    /\ \E i \in 1..Len(requests) : RestoreHandler(i) \/ restoreVersion_Save(i)
    /\ UNCHANGED clientVars

ServeCleanup ==
    /\ \E i \in 1..Len(requests) : CleanupHandler_Read(i) \/ CleanupHandler_Write(i)
    /\ UNCHANGED clientVars

Fail ==
    /\ \E i \in 1..Len(requests) : IoFailure(i)
    /\ UNCHANGED clientVars

Next ==
    \/ CreateBoard
    \/ SubmitSave
    \/ SubmitRestore
    \/ SubmitCleanup
    \/ ServeSave
    \/ ServeRestore
    \/ ServeCleanup
    \/ Fail

Spec == Init /\ [][Next]_vars

\* ---------------------------------------------------------------------------
\* SpecEditor: one board, made with the card scene, its editor session and
\* one more editor who saves
\* ---------------------------------------------------------------------------
EditorScenes == {SceneCard, SceneCardB}

Markdowns == {"# a", "# b"}

\* the users who open the board in the editor: its owner, and vic, who may
\* view it and not edit it (the page opens in edit mode for every user)
SessionUsers == {EditorUser, "vic"}

InitEditor ==
    /\ \E u \in SessionUsers :
          env = [boardIds |-> {"b1"}, users |-> {"bob"}, scenes |-> {SceneCard},
                 maxRequests |-> MaxEditorRequests, keepDone |-> FALSE,
                 sessionUser |-> u,
                 RATE_LIMIT_REQUESTS_PER_MINUTE |-> DefaultRequestsPerMinute]
    /\ InitDatabase
    /\ InitSession

\* the other editor saves a scene with the etag of the board, and no other
\* request is served meanwhile
OtherSave ==
    /\ submitted < env.maxRequests
    /\ submitted' = submitted + 1
    /\ otherSaves' = otherSaves + 1
    /\ \E u \in env.users, b \in env.boardIds :
          /\ boards[b].exists
          /\ BoardVersion_boardId_version_key(b, boards[b].versionNumber + 1)
          /\ WriteVersion(b, u, SceneCardB, NULL, boards[b].versionNumber + 1)
    /\ UNCHANGED <<env, rateLimitStore, now, requests, ioFailures>>
    /\ UNCHANGED clientVars

Edit ==
    \/ \E s \in EditorScenes, e \in BOOLEAN : handleChange(s, e)
    \/ \E j \in 1..3, m \in Markdowns : handleSaveMarkdownCard(j, m)

Timers ==
    \/ AutosaveInterval
    \/ CardSaveDebounce
    \/ IdleTimer

Session ==
    \/ loadBoard
    \/ handleManualSave
    \/ \E i \in 1..Len(requests) : saveToServer_Send(i) \/ saveToServer_Response(i)

NextEditor ==
    \/ CreateBoard
    \/ OtherSave
    \/ ServeSave
    \/ Fail
    \/ Edit
    \/ Timers
    \/ Session

SpecEditor == InitEditor /\ [][NextEditor]_vars

\* ---------------------------------------------------------------------------
\* SpecPayload: one board, made with any scene of Payloads, whose versions
\* are restored, which saves their scenes again
\* ---------------------------------------------------------------------------
\* the elements that the scenes of SpecPayload are made of: images that use
\* file f1, a text, a markdown card, and the search-text mirror of the card,
\* with the customData flag and with the id prefix "mdsearch-" only
PayloadElements ==
    {SceneElement("i1", "image", "", "f1", FALSE, NoCustomData),
     SceneElement("i2", "image", "", "f1", TRUE, NoCustomData),
     SceneElement("t1", "text", "hi", Undefined, FALSE, NoCustomData),
     SceneElement("m1", "embeddable", "", Undefined, FALSE,
        [NoCustomData EXCEPT !.isMarkdownCard = TRUE,
                             !.markdown = "# a",
                             !.searchTextElementId = "mdsearch-m1"]),
     SceneElement("mdsearch-m1", "text", "a", Undefined, FALSE,
        [NoCustomData EXCEPT !.isMarkdownSearchText = TRUE]),
     SceneElement("mdsearch-m1", "text", "a", Undefined, FALSE, NoCustomData)}

PayloadFileIds == {"f1", "f2"}

Payloads ==
    {[elements |-> e, files |-> [f \in F |-> "d"]] :
        e \in UNION {[1..n -> PayloadElements] : n \in 0..MaxPayloadElements},
        F \in SUBSET PayloadFileIds}

InitPayload ==
    /\ \E p \in Payloads :
          env = [boardIds |-> {"b1"}, users |-> {"bob"}, scenes |-> {p},
                 maxRequests |-> MaxPayloadRequests, keepDone |-> TRUE,
                 sessionUser |-> EditorUser,
                 RATE_LIMIT_REQUESTS_PER_MINUTE |-> DefaultRequestsPerMinute]
    /\ InitDatabase
    /\ InitSession

NextPayload ==
    \/ CreateBoard
    \/ SubmitRestore
    \/ ServeSave
    \/ ServeRestore

SpecPayload == InitPayload /\ [][NextPayload]_vars

\* ---------------------------------------------------------------------------
\* SpecCap: one board, made with a scene whose text is about as long as
\* MAX_SEARCH_CONTENT_LENGTH, whose versions are restored
\* ---------------------------------------------------------------------------
\* the text of n letters
RECURSIVE LongText(_)
LongText(n) ==
    IF n = 0 THEN ""
    ELSE IF n = 1 THEN "a"
    ELSE LET half == LongText(n \div 2)
         IN IF n % 2 = 1 THEN half \o half \o "a" ELSE half \o half

ShortText == "hi"

\* texts one character shorter than the cap, as long, and one longer
CapTexts ==
    {ShortText,
     LongText(MAX_SEARCH_CONTENT_LENGTH - 1),
     LongText(MAX_SEARCH_CONTENT_LENGTH),
     LongText(MAX_SEARCH_CONTENT_LENGTH + 1)}

TextElement(id, text) ==
    SceneElement(id, "text", text, Undefined, FALSE, NoCustomData)

\* short texts, of words and of whitespace
SmallTexts == {ShortText, " ", "a b", " \n c"}

\* scenes of one text element, and of a text element followed by a short one
CapScenes ==
    {[elements |-> <<TextElement("t1", text)>>, files |-> EmptyFiles] :
        text \in CapTexts}
    \cup
    {[elements |-> <<TextElement("t1", text), TextElement("t2", small)>>,
      files |-> EmptyFiles] :
        text \in CapTexts, small \in SmallTexts}

InitCap ==
    /\ \E p \in CapScenes :
          env = [boardIds |-> {"b1"}, users |-> {"bob"}, scenes |-> {p},
                 maxRequests |-> MaxCapRequests, keepDone |-> TRUE,
                 sessionUser |-> EditorUser,
                 RATE_LIMIT_REQUESTS_PER_MINUTE |-> DefaultRequestsPerMinute]
    /\ InitDatabase
    /\ InitSession

NextCap ==
    \/ CreateBoard
    \/ SubmitRestore
    \/ ServeSave
    \/ ServeRestore

SpecCap == InitCap /\ [][NextCap]_vars

\* ---------------------------------------------------------------------------
\* SpecRateLimit: one board and one user whose saves go through the rate
\* limiter of the save route, which admits two requests per minute, while
\* the clock advances
\* ---------------------------------------------------------------------------
\* the instants of the run after its start: the end of the first window of
\* the limiter, and the milliseconds next to it
ClockTimes == {windowMs - 1, windowMs, windowMs + 1}

InitRateLimit ==
    /\ env = [boardIds |-> {"b1"}, users |-> {"bob"}, scenes |-> {SceneText},
              maxRequests |-> MaxLimitedRequests, keepDone |-> TRUE,
              sessionUser |-> EditorUser,
              RATE_LIMIT_REQUESTS_PER_MINUTE |-> 2]
    /\ InitDatabase
    /\ InitSession

LimitedSave ==
    /\ \E u \in env.users, b \in env.boardIds, s \in env.scenes :
          rateLimitMiddleware(u, b, boards[b].etag, s)
    /\ UNCHANGED clientVars

Clock ==
    /\ \E t \in ClockTimes : t > now /\ now' = t
    /\ UNCHANGED <<env, rateLimitStore, boards, versions, seq, requests,
                   submitted, otherSaves, ioFailures>>
    /\ UNCHANGED clientVars

StoreCleanup ==
    /\ rateLimitStore_Cleanup
    /\ UNCHANGED clientVars

NextRateLimit ==
    \/ CreateBoard
    \/ LimitedSave
    \/ ServeSave
    \/ Clock
    \/ StoreCleanup

SpecRateLimit == InitRateLimit /\ [][NextRateLimit]_vars

\* ---------------------------------------------------------------------------
\* SpecBoards: two boards and one user who saves, restores and cleans them;
\* the rate limiter of the save route admits one request per minute
\* ---------------------------------------------------------------------------
InitBoards ==
    /\ env = [boardIds |-> AllBoardIds, users |-> {"bob"},
              scenes |-> {SceneOrphan, SceneCard},
              maxRequests |-> MaxBoardsRequests, keepDone |-> TRUE,
              sessionUser |-> EditorUser,
              RATE_LIMIT_REQUESTS_PER_MINUTE |-> 1]
    /\ InitDatabase
    /\ InitSession

NextBoards ==
    \/ CreateBoard
    \/ LimitedSave
    \/ SubmitRestore
    \/ SubmitCleanup
    \/ ServeSave
    \/ ServeRestore
    \/ ServeCleanup

SpecBoards == InitBoards /\ [][NextBoards]_vars

\* ---------------------------------------------------------------------------
\* SpecViewer: one board and two users who call the save, restore and cleanup
\* API: bob, an editor of the board, and vic, who may only view it
\* ---------------------------------------------------------------------------
InitViewer ==
    /\ env = [boardIds |-> {"b1"}, users |-> {"bob", "vic"},
              scenes |-> {SceneOrphan},
              maxRequests |-> MaxViewerRequests, keepDone |-> TRUE,
              sessionUser |-> EditorUser,
              RATE_LIMIT_REQUESTS_PER_MINUTE |-> DefaultRequestsPerMinute]
    /\ InitDatabase
    /\ InitSession

NextViewer ==
    \/ CreateBoard
    \/ SubmitSave
    \/ SubmitRestore
    \/ SubmitCleanup
    \/ ServeSave
    \/ ServeRestore
    \/ ServeCleanup

SpecViewer == InitViewer /\ [][NextViewer]_vars

\* ---------------------------------------------------------------------------
\* SpecHistory: one board and one editor whose saves are served one after
\* the other
\* ---------------------------------------------------------------------------
\* lib/constants: "Older versions are automatically pruned"
MAX_VERSIONS_PER_BOARD == 100

InitHistory ==
    /\ env = [boardIds |-> {"b1"}, users |-> {"bob"}, scenes |-> {SceneText},
              maxRequests |-> MaxHistorySaves, keepDone |-> FALSE,
              sessionUser |-> EditorUser,
              RATE_LIMIT_REQUESTS_PER_MINUTE |-> DefaultRequestsPerMinute]
    /\ InitDatabase
    /\ InitSession

NextHistory ==
    \/ CreateBoard
    \/ OtherSave

SpecHistory == InitHistory /\ [][NextHistory]_vars

\* ---------------------------------------------------------------------------
\* Properties of the save service (checked under Spec)
\* ---------------------------------------------------------------------------
SaveEnded(i) == requests[i].kind = "save" /\ requests[i].pc = "done"

\* both saves carried the same token, and it was the token of the board when
\* each of them was submitted
SameCurrentToken(i, j) ==
    /\ Truthy(requests[i].expectedEtag)
    /\ requests[i].boardId = requests[j].boardId
    /\ requests[i].expectedEtag = requests[j].expectedEtag
    /\ requests[i].submitEtag = requests[i].expectedEtag
    /\ requests[j].submitEtag = requests[j].expectedEtag

WinnerAndConflict(i, j) ==
    /\ requests[i].status = 200
    /\ requests[j].status = 409
    /\ requests[j].etag = requests[i].etag

\* C1: when two saves of a board were submitted with the same expected token,
\* the token current at both submissions, and neither met an I/O failure, then
\* exactly one of them created a version and the other was answered with a
\* conflict (not an internal failure) that carries the winner's token.
C1_LoserGetsConflict ==
    \A i, j \in 1..Len(requests) :
        (/\ i # j
         /\ SaveEnded(i) /\ SaveEnded(j)
         /\ SameCurrentToken(i, j)
         /\ requests[i].cause # "io" /\ requests[j].cause # "io")
        => (WinnerAndConflict(i, j) \/ WinnerAndConflict(j, i))

\* request i (a save, or the save of a restore) commits a new version in
\* this step
CreatesVersion(i) ==
    /\ i \in 1..Len(requests)
    /\ requests[i].pc = "tx"
    /\ saveVersion_Write(i)
    /\ versions' # versions

\* C2: a save, the save made for a restore included, creates a version only
\* if the token its caller supplied equals the token of the board at the
\* moment of the write.
C2_WriteOnlyWithCurrentToken ==
    [][\A i \in 1..Len(requests) :
          CreatesVersion(i)
          => requests[i].expectedEtag = boards[requests[i].boardId].etag]_vars

\* the save handler takes up request i, whose caller may edit the board
ChecksToken(i) ==
    /\ i \in 1..Len(requests)
    /\ canEditBoard(requests[i].userId, requests[i].boardId)
    /\ SaveHandler(i)

\* request i is answered with a conflict that carries the stored token, and
\* nothing of the board or of its versions changes
ConflictAndNoChange(i) ==
    /\ requests'[i].pc = "done"
    /\ requests'[i].status = 409
    /\ requests'[i].etag = boards[requests[i].boardId].etag
    /\ boards' = boards
    /\ versions' = versions

\* C3 as stated: a save whose expected token is present (any string) and
\* differs from the stored token is answered with a conflict that carries the
\* stored token, and changes nothing.
C3_PresentStaleTokenConflicts ==
    [][\A i \in 1..Len(requests) :
          (/\ ChecksToken(i)
           /\ requests[i].expectedEtag # Undefined
           /\ requests[i].expectedEtag # boards[requests[i].boardId].etag)
          => ConflictAndNoChange(i)]_vars

\* C3: a save whose expected token is present and not the empty string, and
\* differs from the stored token, is answered with a conflict that carries the
\* stored token; no version row is added and the board's version number,
\* current-version pointer, token and searchable text stay as they were.
C3_StaleTokenConflictsNoChange ==
    [][\A i \in 1..Len(requests) :
          (/\ ChecksToken(i)
           /\ Truthy(requests[i].expectedEtag)
           /\ requests[i].expectedEtag # boards[requests[i].boardId].etag)
          => ConflictAndNoChange(i)]_vars

\* a save with a stale token has been answered with the conflict, after a
\* version was created by another save
C3_Witness ==
    \E i \in 1..Len(requests) :
        /\ SaveEnded(i)
        /\ requests[i].status = 409
        /\ Truthy(requests[i].expectedEtag)
        /\ requests[i].etag = boards[requests[i].boardId].etag
        /\ boards[requests[i].boardId].versionNumber = 2

\* C4: the version numbers of every board are exactly 1..n, without gaps and
\* without duplicates, whichever of save, restore and cleanup made the rows.
C4_VersionsContiguous ==
    \A b \in AllBoardIds :
        /\ VersionNumbers(b) = 1..Cardinality(VersionsOf(b))
        /\ boards[b].exists => 1 \in VersionNumbers(b)

\* a save and a restore have made versions 2 and 3
C4_Witness ==
    \E b \in AllBoardIds :
        /\ Cardinality(VersionsOf(b)) = 3
        /\ \E v \in VersionsOf(b) : v.label = "Restored"

\* a cleanup has made version 2 and a save that had read version number 1
\* was rejected by the unique index
C4_WitnessCleanup ==
    \E i, j \in 1..Len(requests) :
        /\ requests[i].kind = "cleanup" /\ requests[i].cleaned
        /\ requests[j].kind = "save" /\ requests[j].cause = "unique"

\* C5: the version number of every board is the number of its latest version
\* row, and its current-version pointer is the id of that row.
C5_PointerMatchesLatestRow ==
    \A b \in AllBoardIds :
        boards[b].exists
        => /\ boards[b].versionNumber = LatestVersion(b).version
           /\ boards[b].currentVersionId = LatestVersion(b).id

\* the restore of request i commits in this step
RestoreCommits(i) ==
    /\ i \in 1..Len(requests)
    /\ requests[i].kind = "restore"
    /\ CreatesVersion(i)

\* C10: when version k of a board at version n, k < n, is restored, the board
\* is at version n + 1 afterwards and every version 1..n is still there with
\* the payload it had.
C10_RestoreKeepsHistory ==
    [][\A i \in 1..Len(requests) :
          (/\ RestoreCommits(i)
           /\ requests[i].targetVersion < boards[requests[i].boardId].versionNumber)
          => LET b == requests[i].boardId
                 n == boards[b].versionNumber
             IN /\ boards'[b].versionNumber = n + 1
                /\ \A k \in 1..n :
                      \E v \in VersionsOf(b) :
                          /\ v.version = k
                          /\ v \in versions'
                          /\ \A w \in versions' :
                                (w.boardId = b /\ w.version = k) => w = v]_vars

\* version 1 has been restored on a board that was at version 2
C10_Witness ==
    \E i \in 1..Len(requests) :
        /\ requests[i].kind = "restore"
        /\ requests[i].status = 200
        /\ requests[i].targetVersion = 1
        /\ requests[i].version = 3

\* ---------------------------------------------------------------------------
\* Properties of the editor session (checked under SpecEditor)
\* ---------------------------------------------------------------------------
\* the save requests of the session that are sent and not yet answered
SavesInFlight ==
    {i \in 1..Len(requests) :
        requests[i].caller = "editor" /\ requests[i].pc \in {"sent", "tx"}}

\* C6: at any time at most one save request of the editor session is in
\* flight, whether a tick, a debounce expiry, a card save or a manual save
\* started it.
C6_OneSaveInFlight == Cardinality(SavesInFlight) <= 1

\* the content of the scene on screen
SceneHash == hashSceneContent(excalidrawScene.elements, excalidrawScene.files)

\* C7: while the session shows the conflict that a save attempt was answered
\* with, and the user has not reloaded, neither the autosave tick nor the
\* debounce expiry starts another save: the test of the tick is false and no
\* debounce timer is pending.
C7_NoAutomaticSaveAfterConflict ==
    saveStatus = "conflict" => (~TickSends /\ ~cardSaveDebounceRef)

\* C8: when a save is answered with success and the scene has been changed
\* since that save was started, the dirty flag is set afterwards, so that the
\* next tick sends the change.
C8_ChangeInFlightStaysDirty ==
    [][\A i \in 1..Len(requests) :
          (/\ saveToServer_Response(i)
           /\ requests[i].status = 200
           /\ SceneHash # hashSceneContent(requests[i].sceneJson.elements,
                                           requests[i].sceneJson.files))
          => hasUnsavedChangesRef']_vars

\* C9: when a save attempt fails for a reason other than a conflict and the
\* scene on screen differs from the last saved one, the dirty flag is set
\* afterwards, so that the next tick sends a new save.
C9_FailureKeepsDirty ==
    [][\A i \in 1..Len(requests) :
          (/\ saveToServer_Response(i)
           /\ requests[i].status \notin {200, 409}
           /\ SceneHash # lastSavedHashRef)
          => hasUnsavedChangesRef']_vars

\* ---------------------------------------------------------------------------
\* Properties of the version rows and of the collector (checked under Spec)
\* ---------------------------------------------------------------------------
\* C11: a version row that exists is never changed and never removed by a
\* save, a restore or a cleanup: every row is still there after every step,
\* and it is the only row of its board and version number.
C11_VersionRowsImmutable ==
    [][\A v \in versions :
          /\ v \in versions'
          /\ \A w \in versions' :
                (w.boardId = v.boardId /\ w.version = v.version) => w = v]_vars

\* a cleanup has made version 2 and version 1 still holds the orphaned file
C11_Witness ==
    \E i \in 1..Len(requests) :
        /\ requests[i].kind = "cleanup"
        /\ requests[i].cleaned
        /\ requests[i].version = 2
        /\ orphanedFileIds(getBoardVersion(requests[i].boardId, 1).sceneJson) # {}

C13_NewVersionNewToken ==
    [][\A b \in AllBoardIds :
          (/\ boards[b].exists
           /\ {v \in versions' : v.boardId = b} # VersionsOf(b))
          => boards'[b].etag # boards[b].etag]_vars

\* the save of request i ends in this step with an answer that is neither
\* success nor conflict
SaveFails(i) ==
    /\ requests[i].kind = "save"
    /\ requests[i].pc \in {"sent", "tx"}
    /\ i <= Len(requests')
    /\ requests'[i].pc \in {"responded", "done"}
    /\ requests'[i].status \notin {200, 409}

\* C14: a save that ends in failure has persisted nothing: no version row is
\* added and the board's version number, current-version pointer, etag and
\* searchable text are as before.
C14_FailedSavePersistsNothing ==
    [][\A i \in 1..Len(requests) :
          SaveFails(i) => (versions' = versions /\ boards' = boards)]_vars

\* ---------------------------------------------------------------------------
\* Properties of the cleanup handler (checked under Spec)
\* ---------------------------------------------------------------------------
\* the handler takes up the cleanup request i of a member
CleanupReads(i) ==
    /\ requests[i].kind = "cleanup"
    /\ isOrgMember(requests[i].userId, requests[i].boardId)
    /\ CleanupHandler_Read(i)

\* the cleanup of request i adds its version row in this step
CleanupCreates(i) ==
    /\ requests[i].kind = "cleanup"
    /\ CleanupHandler_Write(i)
    /\ versions' # versions

ScenesOfRun == env.scenes \cup {v.sceneJson : v \in versions}

\* C16: cleaning a cleaned scene changes nothing: for every scene p,
\* cleanOrphanedFiles(cleanOrphanedFiles(p)) = cleanOrphanedFiles(p).
C16_CollectIdempotent ==
    \A p \in ScenesOfRun :
        cleanOrphanedFiles(cleanOrphanedFiles(p)) = cleanOrphanedFiles(p)

\* version 1 holds two unused files, version 2 is version 1 restored, without
\* them, and version 3 is version 2 restored, with the scene of version 2
C16_Witness ==
    /\ Cardinality(VersionsOf("b1")) = 3
    /\ LET v1 == getBoardVersion("b1", 1)
           v2 == getBoardVersion("b1", 2)
           v3 == getBoardVersion("b1", 3)
       IN /\ Cardinality(orphanedFileIds(v1.sceneJson)) = 2
          /\ v2.sceneJson = cleanOrphanedFiles(v1.sceneJson)
          /\ v2.sceneJson # v1.sceneJson
          /\ v3.sceneJson = v2.sceneJson

\* el.id?.startsWith(prefix)
startsWith(id, prefix) ==
    Len(id) >= Len(prefix) /\ SubSeq(id, 1, Len(prefix)) = prefix

\* the editor's test for a search-text element: by customData or by id
isSearchText(el) ==
    \/ el.customData.isMarkdownSearchText
    \/ el.customData.isRichTextSearchText
    \/ startsWith(el.id, "rtsearch-")
    \/ startsWith(el.id, "mdsearch-")

\* the scene holds a card and the search-text element that mirrors it
HasCardWithSearchText(p) ==
    \E c, h \in 1..Len(p.elements) :
        /\ ~p.elements[c].isDeleted
        /\ p.elements[c].customData.isMarkdownCard
        /\ ~p.elements[h].isDeleted
        /\ isSearchText(p.elements[h])
        /\ p.elements[h].id = p.elements[c].customData.searchTextElementId

\* C17: when the scene stored for a board holds a card and its search-text
\* element, recognised by the customData flag or by the id prefix alone, the
\* search-text elements add nothing to the searchable text of the board: it
\* is the text extracted from the scene without them, in which the card's
\* text stands once.
C17_SearchTextNotExtracted ==
    \A b \in AllBoardIds :
        (boards[b].exists /\ HasCardWithSearchText(LatestVersion(b).sceneJson))
        => LET p == LatestVersion(b).sceneJson
               visible(el) == ~isSearchText(el)
           IN boards[b].searchContent =
              extractSearchableContent(
                  [p EXCEPT !.elements = SelectSeq(p.elements, visible)])

\* ---------------------------------------------------------------------------
\* Properties of the editor session, continued (checked under SpecEditor)
\* ---------------------------------------------------------------------------
\* C18: while the content of the scene is the content that was last saved
\* (its hash equals the last saved hash), the autosave tick sends no save.
C18_TickOnlyWhenContentDiffers ==
    (board # NULL /\ SceneHash = lastSavedHashRef) => ~TickSends

\* C19: when a save of the session is answered with success, the etag held
\* by the session becomes the etag of that answer and the last saved hash
\* becomes the hash of the scene that was sent in that save, whatever the
\* scene on screen is by then.
C19_SuccessUpdatesTokenAndBaseline ==
    [][\A i \in 1..Len(requests) :
          (saveToServer_Response(i) /\ requests[i].status = 200)
          => /\ lastSavedEtagRef' = requests[i].etag
             /\ lastSavedHashRef' =
                   hashSceneContent(requests[i].sceneJson.elements,
                                    requests[i].sceneJson.files)]_vars

\* a save has been answered with success after the scene was changed: the
\* session holds the etag of the board and the hash of the stored scene,
\* which is not the scene on screen
C19_Witness ==
    /\ board # NULL
    /\ saveStatus = "saved"
    /\ lastSavedEtagRef = boards[EditorBoard].etag
    /\ lastSavedHashRef =
          hashSceneContent(LatestVersion(EditorBoard).sceneJson.elements,
                           LatestVersion(EditorBoard).sceneJson.files)
    /\ SceneHash # lastSavedHashRef

\* C20: when a save of the session is answered 403 because its user may not
\* edit the board, nothing is left that resends it without a user action:
\* after the answer is handled the autosave tick sends nothing.
C20_ForbiddenNotRetried ==
    [][\A i \in 1..Len(requests) :
          (saveToServer_Response(i) /\ requests[i].status = 403)
          => ~TickSends']_vars

\* ---------------------------------------------------------------------------
\* Properties of requests on different boards (checked under SpecBoards)
\* ---------------------------------------------------------------------------
\* the step changes the row or the versions of board b
ChangesBoard(b) ==
    \/ boards'[b] # boards[b]
    \/ {v \in versions' : v.boardId = b} # VersionsOf(b)

\* the step is taken by a request on board b, or makes board b
StepOnBoard(b) ==
    \/ ~boards[b].exists /\ boards'[b].exists
    \/ \E i \in 1..Len(requests) :
          /\ requests[i].boardId = b
          /\ saveVersion_Write(i) \/ CleanupHandler_Write(i)

\* the saves on board b that the rate limiter passed to the handler
PassedSaves(b) ==
    {j \in 1..Len(requests) :
        /\ requests[j].kind = "save"
        /\ requests[j].boardId = b
        /\ requests[j].status # 429}

\* the save was rejected by the rate limiter
Rejected(i) == requests[i].kind = "save" /\ requests[i].status = 429

\* C21: requests on different boards do not contend: a step changes the row
\* and the versions of a board only when it belongs to a request on that
\* board, and a save on a board is rejected with 429 only when the saves on
\* that same board have used up the limit.
C21_BoardsDoNotContend ==
    /\ [][\A b \in AllBoardIds : ChangesBoard(b) => StepOnBoard(b)]_vars
    /\ [](\A i \in 1..Len(requests) :
            Rejected(i) =>
                Cardinality(PassedSaves(requests[i].boardId))
                    >= env.RATE_LIMIT_REQUESTS_PER_MINUTE)

\* ---------------------------------------------------------------------------
\* Properties of the searchable text (checked under SpecCap)
\* ---------------------------------------------------------------------------
\* the scene that the searchable text of the board was extracted from
CurrentScene(b) == getBoardVersion(b, boards[b].versionNumber).sceneJson

\* C22: the searchable text of a board is exactly MAX_SEARCH_CONTENT_LENGTH
\* characters long when the normalized text of its scene is longer than that,
\* and is the whole normalized text otherwise.
C22_SearchContentCapped ==
    \A b \in AllBoardIds :
        boards[b].exists =>
            LET normalized == fullText(CurrentScene(b))
            IN IF Len(normalized) > MAX_SEARCH_CONTENT_LENGTH
               THEN Len(boards[b].searchContent) = MAX_SEARCH_CONTENT_LENGTH
               ELSE boards[b].searchContent = normalized

\* a restore has saved a scene whose text is longer than the cap, and one
\* whose cut falls right after a space
C22_Witness ==
    \E b \in AllBoardIds :
        /\ boards[b].exists
        /\ boards[b].versionNumber > 1
        /\ Len(fullText(CurrentScene(b))) > MAX_SEARCH_CONTENT_LENGTH
        /\ boards[b].searchContent # ""
        /\ CharAt(boards[b].searchContent, Len(boards[b].searchContent)) = " "

\* ---------------------------------------------------------------------------
\* Properties of the collector in the handlers (checked under SpecBoards)
\* ---------------------------------------------------------------------------
\* the scene that request i handed to the collector
CollectedScene(i) ==
    IF requests[i].kind = "cleanup" THEN requests[i].readScene
    ELSE requests[i].sceneJson

\* request i writes a version row in this step
WritesVersion(i) ==
    /\ saveVersion_Write(i) \/ CleanupHandler_Write(i)
    /\ versions' # versions

\* q has the elements of p, and of the files of p those that an image element
\* of p refers to, each with its data
Collected(p, q) ==
    /\ q.elements = p.elements
    /\ DOMAIN q.files =
          {f \in DOMAIN p.files :
              \E j \in 1..Len(p.elements) :
                  p.elements[j].type = "image" /\ p.elements[j].fileId = f}
    /\ \A f \in DOMAIN q.files : q.files[f] = p.files[f]

CurrentTokenSaveEnds(i) ==
    /\ requests[i].kind = "save"
    /\ saveVersion_Write(i)
    /\ requests[i].expectedEtag = boards[requests[i].boardId].etag
    /\ requests'[i].cause # "io"

\* C24: a save that carries the current etag of the board and meets no I/O
\* failure is answered 200 and creates the next version, also after a
\* cleanup has created a version.
C24_CurrentTokenSaveSucceeds ==
    [][\A i \in 1..Len(requests) :
          CurrentTokenSaveEnds(i) =>
              /\ requests'[i].status = 200
              /\ boards'[requests[i].boardId].versionNumber =
                    boards[requests[i].boardId].versionNumber + 1
              /\ \E v \in versions' \ versions :
                    /\ v.boardId = requests[i].boardId
                    /\ v.version = boards'[requests[i].boardId].versionNumber]_vars

\* ---------------------------------------------------------------------------
\* Properties of the permission checks (checked under SpecViewer)
\* ---------------------------------------------------------------------------
\* C25: every version row was created by a user who can edit its board,
\* whichever endpoint created it: save, restore or cleanup.
C25_VersionsByEditorsOnly ==
    \A v \in versions : canEditBoard(v.createdById, v.boardId)

\* ---------------------------------------------------------------------------
\* Properties of the conflict state of the editor (checked under SpecEditor)
\* ---------------------------------------------------------------------------
\* C26: an editor session that is the only writer of its board, no other
\* editor having saved, never shows the conflict state, however its own
\* saves interleave.
C26_SoleWriterNeverConflicts ==
    otherSaves = 0 => saveStatus # "conflict"

\* ---------------------------------------------------------------------------
\* Properties of the token check (checked under Spec)
\* ---------------------------------------------------------------------------
\* request i has been answered with a conflict
Conflicted(i) == requests[i].pc = "done" /\ requests[i].status = 409

\* C27 as stated: the save is answered with a conflict exactly when an
\* expected token is supplied, the empty string included, and differs from
\* the stored token; otherwise it goes on to write; and only a save that
\* supplied a token is ever answered with a conflict.
C27_ConflictIffPresentAndStale ==
    /\ [][\A i \in 1..Len(requests) :
             ChecksToken(i) =>
                 IF /\ requests[i].expectedEtag # Undefined
                    /\ requests[i].expectedEtag # boards[requests[i].boardId].etag
                 THEN requests'[i].status = 409
                 ELSE requests'[i].pc = "tx"]_vars
    /\ [](\A i \in 1..Len(requests) :
             Conflicted(i) =>
                 requests[i].kind = "save" /\ requests[i].expectedEtag # Undefined)

\* C27: the save is answered with a conflict exactly when an expected token
\* that is not the empty string is supplied and differs from the stored
\* token; a save without a token, or with the empty string, goes on to write
\* without a check; and only a save that supplied a non-empty token is ever
\* answered with a conflict.
C27_ConflictIffTruthyAndStale ==
    /\ [][\A i \in 1..Len(requests) :
             ChecksToken(i) =>
                 IF /\ Truthy(requests[i].expectedEtag)
                    /\ requests[i].expectedEtag # boards[requests[i].boardId].etag
                 THEN requests'[i].status = 409
                 ELSE requests'[i].pc = "tx"]_vars
    /\ [](\A i \in 1..Len(requests) :
             Conflicted(i) =>
                 requests[i].kind = "save" /\ Truthy(requests[i].expectedEtag))

\* a save with the empty string as its token has written version 2, and a
\* save with the token of version 1 has then been answered with a conflict
C27_Witness ==
    \E i, j \in 1..Len(requests) :
        /\ SaveEnded(i)
        /\ requests[i].expectedEtag = ""
        /\ requests[i].status = 200
        /\ Conflicted(j)
        /\ requests[j].expectedEtag = requests[j].submitEtag
        /\ Truthy(requests[j].expectedEtag)

\* the step is the callback of a timer, or the handling of a response
TimerOrResponse ==
    \/ IdleTimer
    \/ AutosaveInterval
    \/ CardSaveDebounce
    \/ \E i \in 1..Len(requests) : saveToServer_Response(i)

\* C28: once saveStatus is "conflict" it stays so until the user acts: no
\* callback of a timer and no response of a save changes it to "idle",
\* "saved", "saving" or "error".
C28_ConflictIsSticky ==
    [][(saveStatus = "conflict" /\ TimerOrResponse)
          => saveStatus' = "conflict"]_vars

\* ---------------------------------------------------------------------------
\* Properties of the rate limiter (checked under SpecRateLimit)
\* ---------------------------------------------------------------------------
\* the requests of the key that were passed to the handler in the span of
\* windowMs milliseconds that ends at t
PassedInSpan(key, t) ==
    {j \in 1..Len(requests) :
        /\ defaultKeyGenerator(requests[j].userId) = key
        /\ requests[j].status # 429
        /\ requests[j].at > t - windowMs
        /\ requests[j].at <= t}

\* C29: the rate limiter is a sliding window: of the requests of one key, at
\* most maxRequests are passed to the handler within any span of windowMs
\* milliseconds, and the others are answered 429.
C29_SlidingWindow ==
    \A i \in 1..Len(requests) :
        Cardinality(PassedInSpan(defaultKeyGenerator(requests[i].userId),
                                 requests[i].at))
            <= env.RATE_LIMIT_REQUESTS_PER_MINUTE

\* ---------------------------------------------------------------------------
\* Properties of the length of the history (checked under SpecHistory)
\* ---------------------------------------------------------------------------
\* C30: a board never has more than MAX_VERSIONS_PER_BOARD versions: a save
\* that would exceed the maximum prunes the oldest versions.
C30_VersionsPruned ==
    \A b \in AllBoardIds :
        Cardinality(VersionsOf(b)) <= MAX_VERSIONS_PER_BOARD

====
